---- MODULE Spec2Model ----
(***************************************************************************)
(* UDP NAT hole punching: the rendezvous server (nat_punch/server.py) and  *)
(* the peer agent (nat_punch/peer.py), with the UDP network between them.  *)
(*                                                                         *)
(* A text is a sequence of atoms.  An atom is an indivisible run of        *)
(* non-blank characters ("peer1", "ping", "5001"), the blank SP, or the    *)
(* byte BadByte that is not valid UTF-8.  A datagram's payload is such a   *)
(* sequence; two atoms with no SP between them are adjacent characters of  *)
(* one word (<<"ping", "x">> is the text "pingx").                         *)
(*                                                                         *)
(* A peer's stdout is kept as the bag of its lines (their order is not     *)
(* modelled); the server's stdout and every socket's sendto calls are kept *)
(* in order.                                                               *)
(***************************************************************************)
EXTENDS Integers, Sequences, FiniteSets, Bags, TLC

\* ------------------------------------------------------------------ bounds

NumPeers == 3      \* peer processes that may be started against one server
MaxFaults == 1     \* datagrams the network drops, duplicates or carries for
                   \* a party that is neither role

\* --------------------------------------------------------------- constants

PORT == 9999       \* the server's well-known port
Burst == 3         \* pings of the punching burst

Peers == 1..NumPeers

SP == " "
BadByte == "0xFF"

ServerAddr == <<"10.0.0.1", PORT>>
PeerAddr(i) == <<"10.0.0.2", 5000 + i>>
NoiseAddr == <<"10.0.0.9", 5000>>

\* host names sendto() can resolve
Hosts == {"10.0.0.1", "10.0.0.2", "10.0.0.9"}

\* the ids given to peers on their command line
PeerIds == {<<"peer1">>, <<"peer2">>}

\* ------------------------------------------------------------------- codec

\* bytes.decode() raises UnicodeDecodeError on a byte that is not UTF-8
CanDecode(data) == \A k \in 1..Len(data) : data[k] # BadByte

RECURSIVE lstrip(_)
lstrip(s) == IF s # <<>> /\ Head(s) = SP THEN lstrip(Tail(s)) ELSE s

RECURSIVE rstrip(_)
rstrip(s) ==
    IF s # <<>> /\ s[Len(s)] = SP THEN rstrip(SubSeq(s, 1, Len(s) - 1)) ELSE s

\* str.strip(): the text without its leading and trailing blanks
strip(s) == rstrip(lstrip(s))

\* length of the leading run of non-blank atoms
RECURSIVE WordLen(_)
WordLen(s) == IF s = <<>> \/ Head(s) = SP THEN 0 ELSE 1 + WordLen(Tail(s))

\* str.split(): the words of the text, blanks dropped
RECURSIVE split(_)
split(s) ==
    LET t == lstrip(s)
        n == WordLen(t)
    IN  IF t = <<>> THEN <<>>
        ELSE <<SubSeq(t, 1, n)>> \o split(SubSeq(t, n + 1, Len(t)))

\* the numbers that have a numeral among the atoms
Numbers == {PORT, 5000} \cup {5000 + i : i \in Peers}

\* str(n)
Numeral(n) == ToString(n)

\* int(word) succeeds on a decimal numeral and raises ValueError otherwise
IsInt(word) == Len(word) = 1 /\ \E n \in Numbers : Numeral(n) = word[1]
ToInt(word) == CHOOSE n \in Numbers : Numeral(n) = word[1]

\* a slip: msg == 'ping' in place of msg.startswith('ping')
StartsWithPing_Equals(msg) == msg = <<"ping">>

\* a slip: the prefix test dropped, every message is answered
StartsWithPing_Any(msg) == TRUE

\* str.startswith('ping')
StartsWithPing(msg) == Len(msg) >= 1 /\ msg[1] = "ping"

\* f"{id} {addr[0]} {addr[1]}"
Introduction(id, addr) == id \o <<SP, addr[1], SP, Numeral(addr[2])>>

\* f'ping from {peer_id}' and f'ack from {peer_id}'
Ping(id) == <<"ping", SP, "from", SP>> \o id
Ack(id) == <<"ack", SP, "from", SP>> \o id

Datagram(src, dst, data) == [src |-> src, dst |-> dst, data |-> data]

\* ------------------------------------------------------------------- state

VARIABLES
    net,        \* datagrams in flight (a bag)
    spc,        \* server: "recv", "send_a", "send_b", "done", "crashed"
    peers,      \* server: the registry, a dict in insertion order: <<id, addr>>
    sout,       \* server: lines written to stdout
    ssent,      \* server: datagrams passed to sendto, in order
    pc,         \* peer: "off", "init", "await", "punch", "listen", "done", "crashed"
    peer_id,    \* peer: argv[1]
    other,      \* peer: <<other_id, other_ip, other_port>> once learned
    burst,      \* peer: iterations of the ping loop completed
    out,        \* peer: lines written to stdout (a bag)
    psent,      \* peer: datagrams passed to sendto, in order
    faults      \* datagrams dropped, duplicated or injected so far

vars == <<net, spc, peers, sout, ssent, pc, peer_id, other, burst, out, psent,
          faults>>

svars == <<spc, peers, sout, ssent>>
pvars == <<pc, peer_id, other, burst, out, psent>>
envvars == <<faults>>

Send(m) == net (+) SetToBag({m})
Take(m) == net (-) SetToBag({m})
InFlight == BagToSet(net)

Addrs == {ServerAddr} \cup {PeerAddr(i) : i \in Peers}

\* the peer sockets that are bound and not closed
OpenPeers == {PeerAddr(i) : i \in {j \in Peers : pc[j] \in {"await", "punch", "listen"}}}

\* the server's socket, from bind to close
ServerOpen == spc \in {"recv", "send_a", "send_b"}

\* the datagrams of the bag that are still under way after this step.  A
\* datagram for a peer port with no open socket is discarded by the receiving
\* host; a datagram for the server's port is kept, read or not.
Arriving(bag) ==
    LET keep == {m \in BagToSet(bag) : m.dst = ServerAddr \/ m.dst \in OpenPeers'}
    IN  [m \in keep |-> bag[m]]

\* ------------------------------------------------------------------ server

\* a slip: the loop runs until three entries
LoopCond_Three(reg) == Len(reg) < 3

\* while len(peers) < 2
LoopCond(reg) == Len(reg) < 2

HasKey(reg, id) == \E k \in 1..Len(reg) : reg[k][1] = id

\* a slip: peers.setdefault(peer_id, addr), the first address is kept
RegistryPut_KeepFirst(reg, id, addr) ==
    IF \E k \in 1..Len(reg) : reg[k][1] = id THEN reg ELSE Append(reg, <<id, addr>>)

\* a slip: the newest key is put first
RegistryPut_Prepend(reg, id, addr) ==
    IF \E k \in 1..Len(reg) : reg[k][1] = id
    THEN [k \in 1..Len(reg) |-> IF reg[k][1] = id THEN <<id, addr>> ELSE reg[k]]
    ELSE <<(<<id, addr>>)>> \o reg

\* a slip: a list of registrations in place of a dict
RegistryPut_List(reg, id, addr) == Append(reg, <<id, addr>>)

\* peers[peer_id] = addr: a new key is appended, a known key keeps its
\* position and takes the new value
RegistryPut(reg, id, addr) ==
    IF HasKey(reg, id)
    THEN [k \in 1..Len(reg) |-> IF reg[k][1] = id THEN <<id, addr>> ELSE reg[k]]
    ELSE Append(reg, <<id, addr>>)

\* print(f"got {peer_id} from {addr}")
GotLine(id, addr) == [k |-> "got", a |-> id, b |-> addr]

\* a slip: print("introduced", b_id, a_id)
IntroducedLine_Swapped(a_id, b_id) == [k |-> "introduced", a |-> b_id, b |-> a_id]

\* print("introduced", a_id, b_id)
IntroducedLine(a_id, b_id) == [k |-> "introduced", a |-> a_id, b |-> b_id]

\* one iteration of the receive loop
ServerRecv(m) ==
    /\ spc = "recv"
    /\ m \in InFlight
    /\ m.dst = ServerAddr
    /\ IF ~CanDecode(m.data)
       THEN /\ spc' = "crashed"
            /\ UNCHANGED <<peers, sout, ssent>>
       ELSE LET id == strip(m.data)
                reg == RegistryPut(peers, id, m.src)
            IN  /\ sout' = Append(sout, GotLine(id, m.src))
                /\ peers' = reg
                /\ spc' = IF LoopCond(reg) THEN "recv" ELSE "send_a"
                /\ UNCHANGED ssent
    /\ UNCHANGED <<pvars, envvars>>
    /\ net' = Arriving(Take(m))

\* a slip: b_id = ids[0]
PairB_First(reg) == reg[1]

\* ids = list(peers.keys()); a_id, b_id = ids[0], ids[1]
PairA(reg) == reg[1]
PairB(reg) == reg[2]

\* sock.sendto(f"{b_id} {b_addr[0]} {b_addr[1]}".encode(), a_addr)
ServerIntroduceA ==
    /\ spc = "send_a"
    /\ spc' = "send_b"
    /\ UNCHANGED <<peers, sout, pvars, envvars>>
    /\ LET a == PairA(peers)
           b == PairB(peers)
           m == Datagram(ServerAddr, a[2], Introduction(b[1], b[2]))
       IN  /\ ssent' = Append(ssent, m)
           /\ net' = Arriving(Send(m))

\* sock.sendto(f"{a_id} {a_addr[0]} {a_addr[1]}".encode(), b_addr), the
\* "introduced" line and sock.close()
ServerIntroduceB ==
    /\ spc = "send_b"
    /\ spc' = "done"
    /\ UNCHANGED <<peers, pvars, envvars>>
    /\ LET a == PairA(peers)
           b == PairB(peers)
           m == Datagram(ServerAddr, b[2], Introduction(a[1], a[2]))
       IN  /\ ssent' = Append(ssent, m)
           /\ sout' = Append(sout, IntroducedLine(a[1], b[1]))
           /\ net' = Arriving(Send(m))

\* -------------------------------------------------------------------- peer

\* print(f'{peer_id} learned {other_id} at {other_ip}:{other_port}')
LearnedLine(id, ip, port) == [k |-> "learned", a |-> id, b |-> <<ip, port>>]

\* print(f'{peer_id} got "{msg}" from {addr}')
PeerGotLine(msg, addr) == [k |-> "got", a |-> msg, b |-> addr]

\* socket.gaierror unless the host is an address or a name that resolves
Resolvable(ip) == Len(ip) = 1 /\ ip[1] \in Hosts

\* bind and sock.sendto(peer_id.encode(), (server_ip, server_port))
PeerRegister(i) ==
    /\ pc[i] = "init"
    /\ pc' = [pc EXCEPT ![i] = "await"]
    /\ UNCHANGED <<svars, peer_id, other, burst, out, envvars>>
    /\ LET m == Datagram(PeerAddr(i), ServerAddr, peer_id[i])
       IN  /\ psent' = [psent EXCEPT ![i] = Append(@, m)]
           /\ net' = Arriving(Send(m))

\* the unpacking of data.decode().split() into three names and
\* int(other_port) both raise ValueError
IntroFields(data) == split(data)
IntroOk(data) ==
    /\ CanDecode(data)
    /\ Len(IntroFields(data)) = 3
    /\ IsInt(IntroFields(data)[3])

\* data, _ = sock.recvfrom(1024) and the decoding of the introduction
PeerRecvIntro(i, m) ==
    /\ pc[i] = "await"
    /\ m \in InFlight
    /\ m.dst = PeerAddr(i)
    /\ IF IntroOk(m.data)
       THEN LET f == IntroFields(m.data)
            IN  /\ other' = [other EXCEPT ![i] = <<f[1], f[2], ToInt(f[3])>>]
                /\ out' = [out EXCEPT ![i] =
                              @ (+) SetToBag({LearnedLine(f[1], f[2], ToInt(f[3]))})]
                /\ pc' = [pc EXCEPT ![i] = "punch"]
       ELSE /\ pc' = [pc EXCEPT ![i] = "crashed"]
            /\ UNCHANGED <<other, out>>
    /\ UNCHANGED <<svars, peer_id, burst, psent, envvars>>
    /\ net' = Arriving(Take(m))

\* slips of the loop bound: one ping too many, one too few
InBurst_Four(n) == n <= Burst
InBurst_Two(n) == n < Burst - 1

\* for _ in range(3): n iterations done, another one follows
InBurst(n) == n < Burst

\* one iteration of the burst: sendto(f'ping from {peer_id}', (other_ip,
\* other_port)) and the sleep
PeerPing(i) ==
    /\ pc[i] = "punch"
    /\ UNCHANGED <<svars, peer_id, other, out, envvars>>
    /\ IF Resolvable(other[i][2])
       THEN LET m == Datagram(PeerAddr(i), <<other[i][2][1], other[i][3]>>,
                              Ping(peer_id[i]))
            IN  /\ psent' = [psent EXCEPT ![i] = Append(@, m)]
                /\ burst' = [burst EXCEPT ![i] = @ + 1]
                /\ pc' = [pc EXCEPT ![i] =
                             IF InBurst(burst[i] + 1) THEN "punch" ELSE "listen"]
                /\ net' = Arriving(Send(m))
       ELSE /\ pc' = [pc EXCEPT ![i] = "crashed"]
            /\ UNCHANGED <<psent, burst>>
            /\ net' = Arriving(net)

\* a slip: the ack goes to (other_ip, other_port)
ReplyTo_Partner(i, m) == <<other[i][2][1], other[i][3]>>

\* msg, addr = sock.recvfrom(1024): the reply goes to addr
ReplyTo(i, m) == m.src

\* one iteration of the listening loop
PeerListen(i, m) ==
    /\ pc[i] = "listen"
    /\ m \in InFlight
    /\ m.dst = PeerAddr(i)
    /\ UNCHANGED <<svars, peer_id, other, burst, envvars>>
    /\ IF ~CanDecode(m.data)
       THEN /\ pc' = [pc EXCEPT ![i] = "crashed"]
            /\ UNCHANGED <<out, psent>>
            /\ net' = Arriving(Take(m))
       ELSE /\ out' = [out EXCEPT ![i] = @ (+) SetToBag({PeerGotLine(m.data, m.src)})]
            /\ UNCHANGED pc
            /\ IF StartsWithPing(m.data)
               THEN LET r == Datagram(PeerAddr(i), ReplyTo(i, m), Ack(peer_id[i]))
                    IN  /\ psent' = [psent EXCEPT ![i] = Append(@, r)]
                        /\ net' = Arriving(Take(m) (+) SetToBag({r}))
               ELSE /\ UNCHANGED psent
                    /\ net' = Arriving(Take(m))

\* socket.timeout leaves the loop; sock.close()
Timeout(i) ==
    /\ pc[i] = "listen"
    /\ pc' = [pc EXCEPT ![i] = "done"]
    /\ UNCHANGED <<svars, peer_id, other, burst, out, psent, envvars>>
    /\ net' = Arriving(net)

\* the window passes with nothing received: no datagram for this socket is
\* under way (one delayed past the window is one the peer never sees: a
\* datagram lost)
PeerTimeout(i) ==
    /\ \A m \in InFlight : m.dst # PeerAddr(i)
    /\ Timeout(i)

\* a window longer than every delay: the timeout does not fire while a
\* datagram is under way to an open peer socket
Quiet == \A m \in InFlight : m.dst \notin OpenPeers

PeerPatientTimeout(i) ==
    /\ Quiet
    /\ Timeout(i)

\* ----------------------------------------------------------------- network

\* UDP may drop a datagram
Lose(m) ==
    /\ faults < MaxFaults
    /\ m \in InFlight
    /\ net' = Take(m)
    /\ faults' = faults + 1
    /\ UNCHANGED <<svars, pvars>>

\* UDP may deliver a datagram twice
Duplicate(m) ==
    /\ faults < MaxFaults
    /\ m \in InFlight
    /\ net' = Send(m)
    /\ faults' = faults + 1
    /\ UNCHANGED <<svars, pvars>>

\* what a party that is neither role may send to an open socket: a byte that
\* is not UTF-8, the word "pingx", a ping of its own, and introductions of
\* itself, one under a host name that does not resolve
NoisePayloads ==
    { <<BadByte>>,
      <<"ping", "x">>,
      Ping(<<"x">>),
      Introduction(<<"x">>, NoiseAddr),
      Introduction(<<"x">>, <<"nowhere", 5000>>) }

Noise(data, dst) ==
    /\ faults < MaxFaults
    /\ \/ dst = ServerAddr /\ ServerOpen
       \/ dst \in OpenPeers
    /\ net' = Send(Datagram(NoiseAddr, dst, data))
    /\ faults' = faults + 1
    /\ UNCHANGED <<svars, pvars>>

\* ----------------------------------------------------------- specification

InitCommon ==
    /\ net = EmptyBag
    /\ spc = "recv"
    /\ peers = <<>>
    /\ sout = <<>>
    /\ ssent = <<>>
    /\ other = [i \in Peers |-> <<>>]
    /\ burst = [i \in Peers |-> 0]
    /\ out = [i \in Peers |-> EmptyBag]
    /\ psent = [i \in Peers |-> <<>>]
    /\ faults = 0

\* every peer is started, the first as peer1, the others under any id
Init ==
    /\ InitCommon
    /\ peer_id \in [Peers -> PeerIds]
    /\ peer_id[1] = <<"peer1">>
    /\ pc = [i \in Peers |-> "init"]

ServerStep ==
    \/ \E m \in InFlight : ServerRecv(m)
    \/ ServerIntroduceA
    \/ ServerIntroduceB

PeerRun(i) ==
    \/ PeerRegister(i)
    \/ \E m \in InFlight : PeerRecvIntro(i, m)
    \/ PeerPing(i)
    \/ \E m \in InFlight : PeerListen(i, m)

Next ==
    \/ ServerStep
    \/ \E i \in Peers : PeerRun(i)
    \/ \E i \in Peers : PeerTimeout(i)
    \/ \E m \in InFlight : Lose(m)
    \/ \E m \in InFlight : Duplicate(m)
    \/ \E data \in NoisePayloads : \E dst \in Addrs : Noise(data, dst)

\* the network that may reorder, drop and duplicate datagrams and carry
\* those of strangers
Spec == Init /\ [][Next]_vars

\* the scenario of tests/test_punch.py: two peers under the two ids, a
\* network that reorders but neither drops nor duplicates, no stranger
Scenario == {1, 2}
Partner(i) == 3 - i

FairInit ==
    /\ InitCommon
    /\ peer_id \in [Peers -> PeerIds]
    /\ peer_id[1] # peer_id[2]
    /\ \A i \in Peers \ Scenario : peer_id[i] = <<"peer1">>
    /\ pc = [i \in Peers |-> IF i \in Scenario THEN "init" ELSE "off"]

FairNext ==
    \/ ServerStep
    \/ \E i \in Peers : PeerRun(i)
    \/ \E i \in Peers : PeerPatientTimeout(i)

\* every process keeps running and every datagram under way is delivered
FairSpec ==
    /\ FairInit
    /\ [][FairNext]_vars
    /\ WF_vars(ServerStep)
    /\ \A i \in Peers : WF_vars(PeerRun(i)) /\ WF_vars(PeerPatientTimeout(i))

\* ------------------------------------------------------------------ claims

Started == {i \in Peers : pc[i] # "off"}

\* the peer's stdout holds "<own id> learned <id> at ..."
Learned(i, id) == \E l \in BagToSet(out[i]) : l.k = "learned" /\ l.a = id

\* the peer's stdout holds '<own id> got "ack from <id>" from ...'
GotAck(i, id) == \E l \in BagToSet(out[i]) : l.k = "got" /\ l.a = Ack(id)

\* the server's "got <id> from <addr>" lines, in order
GotLines == SelectSeq(sout, LAMBDA l : l.k = "got")

\* the source address of the latest registration received under the id
LastAddr(id) ==
    LET g == SelectSeq(GotLines, LAMBDA l : l.a = id)
    IN  g[Len(g)].b

RegIds == {peers[k][1] : k \in 1..Len(peers)}
RegAddrs == {peers[k][2] : k \in 1..Len(peers)}

\* C1.  Two peers register under distinct ids with one server and both
\* Register datagrams are delivered: the server sends, and each peer
\* receives, an Introduction naming the other peer's id, and the server
\* terminates after exactly one introduction round.  Stated for the end of
\* the run: once both peers have stopped, the server is done, has sent its
\* two Introductions, and each peer has learned the other.
C1_BothLearn ==
    (\A i \in Peers : pc[i] \in {"off", "done", "crashed"}) =>
        /\ spc = "done"
        /\ Len(ssent) = 2
        /\ \A i \in Started : \A j \in Started \ {i} : Learned(i, peer_id[j])

\* C2.  Of two introduced peers, each one that stays in Listening until
\* nothing more can arrive records at least one "ack from <partner id>",
\* when no datagram is lost.
C2_AckObserved ==
    \A i \in Scenario :
        (Learned(i, peer_id[Partner(i)]) /\ Learned(Partner(i), peer_id[i]))
            ~> GotAck(i, peer_id[Partner(i)])

C2_Witness ==
    /\ Learned(1, peer_id[2]) /\ Learned(2, peer_id[1])
    /\ GotAck(1, peer_id[2]) /\ GotAck(2, peer_id[1])
    /\ pc[1] = "done" /\ pc[2] = "done"

\* a Register datagram is one word; a punch message is "ping from <id>" or
\* "ack from <id>"
MalformedRegister(data) == ~CanDecode(data) \/ Len(split(data)) # 1
MalformedPunch(data) ==
    \/ ~CanDecode(data)
    \/ Len(split(data)) # 3
    \/ split(data)[1] \notin {<<"ping">>, <<"ack">>}
    \/ split(data)[2] # <<"from">>

\* C3.  A malformed datagram delivered to the server, or to a peer in
\* AwaitingIntroduction or Listening, is silently ignored: the receiving role
\* does not terminate, the server's registry is unchanged, the peer stays in
\* its state and sends nothing.
C3_MalformedIgnored ==
    [][\A m \in InFlight :
        /\ (ServerRecv(m) /\ MalformedRegister(m.data)) =>
               spc' = "recv" /\ peers' = peers
        /\ \A i \in Peers :
               \/ PeerRecvIntro(i, m) /\ ~IntroOk(m.data)
               \/ PeerListen(i, m) /\ MalformedPunch(m.data)
               => pc'[i] = pc[i] /\ psent'[i] = psent[i]]_vars

\* C4.  A peer in AwaitingIntroduction that receives a datagram other than
\* a well-formed Introduction ignores it and stays in AwaitingIntroduction;
\* so it does when the partner's ping overtakes the server's Introduction.
C4_NonIntroductionIgnored ==
    [][\A i \in Peers : \A m \in InFlight :
        (PeerRecvIntro(i, m) /\ ~IntroOk(m.data)) => pc'[i] = "await"]_vars

\* the ids and addresses a datagram of the model can carry
SomeIds == PeerIds \cup {strip(d) : d \in {e \in NoisePayloads : CanDecode(e)}}
SomeAddrs == Addrs \cup {NoiseAddr}

\* a datagram for the server's port that is unread when the registry holds
\* two distinct ids
Late(m) ==
    /\ m \in InFlight
    /\ m.dst = ServerAddr
    /\ Cardinality(RegIds) >= 2

\* no Introduction sent so far goes to the datagram's source address or
\* carries it, nor carries its id, unless a registered entry has the same
NotIntroduced(m, sent) ==
    \A k \in 1..Len(sent) :
        /\ m.src \notin RegAddrs =>
               /\ sent[k].dst # m.src
               /\ \A id \in SomeIds : sent[k].data # Introduction(id, m.src)
        /\ (CanDecode(m.data) /\ strip(m.data) \notin RegIds) =>
               \A a \in SomeAddrs : sent[k].data # Introduction(strip(m.data), a)

\* C5.  A registration that reaches the server's port after two distinct
\* ids are registered is never introduced: the server does not read it, the
\* registry stays as it is, and no Introduction is sent to its source address
\* or carries its id or address (an id or address that the late datagram
\* shares with a registered entry is that entry's).
C5_LateNotIntroduced ==
    [][\A m \in InFlight : Late(m) =>
        /\ ~ServerRecv(m)
        /\ peers' = peers
        /\ NotIntroduced(m, ssent')]_vars

C5_Witness ==
    /\ spc = "done"
    /\ \E i \in Peers : \E m \in InFlight :
        /\ Late(m)
        /\ m.src = PeerAddr(i)
        /\ pc[i] = "await"
        /\ m.src \notin RegAddrs

\* what the server sends to the first and to the second entry, with the
\* addresses taken from the latest "got" line of each id
LatestIntroA ==
    Datagram(ServerAddr, LastAddr(peers[1][1]),
             Introduction(peers[2][1], LastAddr(peers[2][1])))
LatestIntroB ==
    Datagram(ServerAddr, LastAddr(peers[2][1]),
             Introduction(peers[1][1], LastAddr(peers[1][1])))

\* C6.  A registration under an id already in the registry overwrites the
\* id's address with the source address of the latest datagram; the
\* Introductions are sent to, and carry, the latest observed source address
\* of each id, which is a socket's address and not one written in a payload.
C6_LastWriteWins ==
    /\ \A k \in 1..Len(peers) :
        /\ peers[k][2] = LastAddr(peers[k][1])
        /\ peers[k][2] \in SomeAddrs
    /\ Len(ssent) >= 1 => ssent[1] = LatestIntroA
    /\ Len(ssent) >= 2 => ssent[2] = LatestIntroB

C6_Witness ==
    /\ spc = "done"
    /\ \E x \in 1..Len(GotLines) : \E y \in 1..Len(GotLines) :
        /\ x < y
        /\ GotLines[x].a = GotLines[y].a
        /\ GotLines[x].b # GotLines[y].b

\* the server's part of a state of one run
OneRound ==
    /\ Len(peers) <= 2
    /\ Cardinality(RegIds) = Len(peers)
    /\ Len(peers) < 2 => ssent = <<>>
    /\ Len(ssent) <= 2
    /\ Len(ssent) >= 1 =>
           ssent[1] = Datagram(ServerAddr, peers[1][2],
                               Introduction(peers[2][1], peers[2][2]))
    /\ Len(ssent) = 2 =>
           /\ ssent[2] = Datagram(ServerAddr, peers[2][2],
                                  Introduction(peers[1][1], peers[1][2]))
           /\ spc = "done"
    /\ spc = "done" => Len(ssent) = 2

\* C7.  The server performs one introduction per run: it sends nothing
\* while its registry holds fewer than two ids, it sends two datagrams in
\* all, to each registered address the other entry's id and address, the
\* registry never holds more than two ids, and after the second Introduction
\* it is terminated and sends and receives nothing more.
C7_OneIntroduction ==
    [][/\ OneRound
       /\ OneRound'
       /\ spc = "done" => UNCHANGED svars /\ \A m \in InFlight : ~ServerRecv(m)]_vars

C7_Witness ==
    /\ spc = "done"
    /\ Len(ssent) = 2
    /\ ssent[1].dst # ssent[2].dst

\* C8, as claimed.  With peer1 and peer2 started together against the
\* server, the server's output holds "introduced peer1 peer2" for every
\* interleaving of the two Register datagrams.
C8_Peer1First ==
    spc = "done" =>
        sout[Len(sout)] = [k |-> "introduced", a |-> <<"peer1">>, b |-> <<"peer2">>]

\* C8, amended.  The server's output ends with "introduced" and the two
\* ids in the order their Register datagrams were received: "introduced
\* peer1 peer2" when peer1's came first, "introduced peer2 peer1" otherwise.
C8_ArrivalOrder ==
    spc = "done" =>
        /\ Len(sout) = 3
        /\ {sout[1].a, sout[2].a} = {<<"peer1">>, <<"peer2">>}
        /\ sout[3] = [k |-> "introduced", a |-> sout[1].a, b |-> sout[2].a]

C8_Witness ==
    /\ spc = "done"
    /\ sout[Len(sout)] = [k |-> "introduced", a |-> <<"peer2">>, b |-> <<"peer1">>]

\* the distinct elements of a sequence, in order of first occurrence
RECURSIVE FirstOccurrences(_)
FirstOccurrences(s) ==
    IF s = <<>> THEN <<>>
    ELSE LET d == FirstOccurrences(SubSeq(s, 1, Len(s) - 1))
             x == s[Len(s)]
         IN  IF \E k \in 1..Len(d) : d[k] = x THEN d ELSE Append(d, x)

ArrivalOrder == FirstOccurrences([k \in 1..Len(GotLines) |-> GotLines[k].a])

\* C9.  The pair the server introduces is the first two distinct ids in
\* order of first arrival: the id that arrived first is sent its Introduction
\* first and is named first in the "introduced" line, whatever
\* re-registrations of it followed.
C9_PairInArrivalOrder ==
    /\ [k \in 1..Len(peers) |-> peers[k][1]] = ArrivalOrder
    /\ Len(ssent) >= 1 =>
           /\ Len(ArrivalOrder) = 2
           /\ ssent[1].dst = LastAddr(ArrivalOrder[1])
           /\ ssent[1].data =
                  Introduction(ArrivalOrder[2], LastAddr(ArrivalOrder[2]))
    /\ spc = "done" =>
           sout[Len(sout)] =
               [k |-> "introduced", a |-> ArrivalOrder[1], b |-> ArrivalOrder[2]]

C9_Witness ==
    /\ spc = "done"
    /\ Len(GotLines) >= 3
    /\ GotLines[1].a = GotLines[2].a
    /\ GotLines[1].b # GotLines[2].b

\* C10.  The server leaves its receive loop only with two distinct ids in
\* the registry: while every registration received carries the same id the
\* registry holds one entry, and the server sends no Introduction and does
\* not terminate.
C10_SameIdNeverAdvances ==
    /\ spc \in {"send_a", "send_b", "done"} =>
           Len(peers) = 2 /\ peers[1][1] # peers[2][1]
    /\ (spc # "crashed" /\ Len(ArrivalOrder) <= 1) =>
           /\ Len(peers) = Len(ArrivalOrder)
           /\ spc = "recv"
           /\ ssent = <<>>

C10_Witness ==
    /\ Len(GotLines) >= 3
    /\ Len(ArrivalOrder) = 1
    /\ spc = "recv"
    /\ \E x \in 1..Len(GotLines) : GotLines[x].b # GotLines[1].b

\* a well-formed ping: "ping from <id>"
IsPing(data) ==
    /\ CanDecode(data)
    /\ Len(split(data)) = 3
    /\ split(data)[1] = <<"ping">>
    /\ split(data)[2] = <<"from">>

\* the ack this peer owes to a datagram's sender
AckFor(i, m) ==
    [src |-> PeerAddr(i), dst |-> m.src,
     data |-> <<"ack", SP, "from", SP>> \o peer_id[i]]

\* C11.  In Listening each ping a peer receives, from any sender, makes it
\* send exactly one "ack from <own id>" to the datagram's source address; a
\* ping that arrives while the peer is in Punching is not read then, stays
\* queued, and is answered this way in Listening.
C11_AckToSource ==
    [][\A i \in Peers :
        /\ \A m \in InFlight :
               (PeerListen(i, m) /\ IsPing(m.data)) =>
                   psent'[i] = Append(psent[i], AckFor(i, m))
        /\ (PeerPing(i) /\ pc'[i] # "crashed") =>
               \A m \in InFlight : m.dst = PeerAddr(i) =>
                   /\ BagIn(m, net')
                   /\ CopiesIn(m, net') = CopiesIn(m, net)]_vars

\* a listening peer has acked the ping of a sender that is not the partner it
\* learned
C11_Witness ==
    \E i \in Peers :
        /\ pc[i] = "listen"
        /\ \E k \in 1..Len(psent[i]) :
            /\ psent[i][k].data = Ack(peer_id[i])
            /\ psent[i][k].dst = NoiseAddr
            /\ psent[i][k].dst # <<other[i][2][1], other[i][3]>>

\* a well-formed ack: "ack from <id>"
IsAck(data) ==
    /\ CanDecode(data)
    /\ Len(split(data)) = 3
    /\ split(data)[1] = <<"ack">>
    /\ split(data)[2] = <<"from">>

\* the acks a peer has sent so far
AcksSent(i) == SelectSeq(psent[i], LAMBDA d : d.data[1] = "ack")

\* how many well-formed pings the peer has read in Listening
PingsDelivered(i) ==
    LET lines == {l \in BagToSet(out[i]) : l.k = "got" /\ IsPing(l.a)}
        RECURSIVE Sum(_)
        Sum(S) == IF S = {} THEN 0
                  ELSE LET l == CHOOSE x \in S : TRUE
                       IN  CopiesIn(l, out[i]) + Sum(S \ {l})
    IN  Sum(lines)

\* C12.  A listening peer that receives an ack only records it and sends
\* nothing; a peer sends an ack only in the step that reads a well-formed ping,
\* so the acks it has sent never outnumber the pings delivered to it, and no
\* ack is answered by any datagram.
C12_AcksOnlyForPings ==
    [][\A i \in Peers :
        /\ \A m \in InFlight :
               (PeerListen(i, m) /\ IsAck(m.data)) =>
                   /\ psent'[i] = psent[i]
                   /\ out'[i] = out[i] (+) SetToBag({[k |-> "got", a |-> m.data, b |-> m.src]})
        /\ Len(AcksSent(i)') > Len(AcksSent(i)) =>
               \E m \in InFlight : PeerListen(i, m) /\ IsPing(m.data)
        /\ Len(AcksSent(i)') <= PingsDelivered(i)']_vars

\* C13.  A listening peer that receives a datagram which is not a well-formed
\* punch message ("ping from <id>" or "ack from <id>") ignores it: nothing is
\* added to its output and it sends nothing in reply.
C13_MalformedPunchIgnored ==
    [][\A i \in Peers : \A m \in InFlight :
        (PeerListen(i, m) /\ MalformedPunch(m.data)) =>
            /\ out'[i] = out[i]
            /\ psent'[i] = psent[i]]_vars

\* the pings a peer has sent so far
PingsSent(i) == SelectSeq(psent[i], LAMBDA d : d.data[1] = "ping")

\* the ping this peer owes its partner: to the address of the Introduction
PingFor(i) ==
    [src |-> PeerAddr(i), dst |-> <<other[i][2][1], other[i][3]>>,
     data |-> <<"ping", SP, "from", SP>> \o peer_id[i]]

\* C14.  In Punching a peer sends exactly 3 "ping from <own id>" datagrams, all
\* to the partner address of the Introduction it received, whatever has
\* arrived for it meanwhile; during the burst it reads nothing and sends no
\* ack, and after the burst it sends no further ping.
C14_FixedBurst ==
    [][\A i \in Peers :
        /\ pc'[i] \in {"init", "await"} => Len(PingsSent(i)') = 0
        /\ pc'[i] = "punch" =>
               /\ Len(PingsSent(i)') < 3
               /\ Len(psent'[i]) = 1 + Len(PingsSent(i)')
        /\ pc'[i] \in {"listen", "done"} =>
               /\ Len(PingsSent(i)') = 3
               /\ \A k \in 2..4 : psent'[i][k] = PingFor(i)'
        /\ pc[i] = "punch" =>
               /\ out'[i] = out[i]
               /\ psent'[i] # psent[i] =>
                      /\ psent'[i] = Append(psent[i], PingFor(i))
                      /\ \A m \in InFlight : m.dst = PeerAddr(i) =>
                             CopiesIn(m, net') = CopiesIn(m, net)]_vars

\* a peer has finished its burst of 3 while a ping of its partner was waiting
\* unread at its socket
C14_Witness ==
    \E i \in Peers :
        /\ pc[i] = "listen"
        /\ Len(PingsSent(i)) = 3
        /\ Len(psent[i]) = 4
        /\ \E m \in InFlight :
            /\ m.dst = PeerAddr(i)
            /\ m.data = Ping(other[i][1])
            /\ CopiesIn(m, net) = 3

\* each peer of the scenario has received the Introduction naming the other
BothIntroduced == \A i \in Scenario : Learned(i, peer_id[Partner(i)])

\* C15.  A peer reaches Done only from Listening, in a step in which it
\* receives nothing and no datagram is waiting for it; no peer sends more than
\* 3 pings or more than 3 acks; so two introduced peers on a network that
\* neither loses nor duplicates datagrams both eventually reach Done.
C15_TimeoutOnlyExit ==
    /\ [][\A i \in Peers : (pc'[i] = "done" /\ pc[i] # "done") =>
            /\ pc[i] = "listen"
            /\ \A m \in InFlight : m.dst # PeerAddr(i)
            /\ out'[i] = out[i]
            /\ psent'[i] = psent[i]]_vars
    /\ [](\A i \in Peers : Len(PingsSent(i)) <= 3 /\ Len(AcksSent(i)) <= 3)
    /\ (BothIntroduced ~> (\A i \in Scenario : pc[i] = "done"))

\* both peers are done, each having sent its 3 pings and answered the
\* other's 3 pings
C15_Witness ==
    \A i \in Scenario :
        /\ pc[i] = "done"
        /\ Len(PingsSent(i)) = 3
        /\ Len(AcksSent(i)) = 3

\* the Register datagram of an awaiting peer is gone and the server never
\* received it
RegisterLost(i) ==
    /\ \A m \in InFlight : ~(m.src = PeerAddr(i) /\ m.dst = ServerAddr)
    /\ \A k \in 1..Len(sout) : ~(sout[k].k = "got" /\ sout[k].b = PeerAddr(i))

\* the server has sent an Introduction to an awaiting peer and it is gone
IntroLost(i) ==
    \E k \in 1..Len(ssent) :
        /\ ssent[k].dst = PeerAddr(i)
        /\ ~BagIn(ssent[k], net)

\* C16.  A peer sends its Register exactly once, and AwaitingIntroduction has
\* no timeout: while its Register is lost, or the server has not collected two
\* distinct ids, or its Introduction is lost, the peer stays in
\* AwaitingIntroduction (a stranger's datagram aside), so it never reaches
\* Punching, Listening or Done.
C16_AwaitForever ==
    [][\A i \in Peers :
        /\ Len(SelectSeq(psent'[i], LAMBDA d : d.data = peer_id[i])) <= 1
        /\ (/\ pc[i] = "await"
            /\ RegisterLost(i) \/ Len(peers) < 2 \/ IntroLost(i))
           => \/ pc'[i] = "await"
              \/ \E m \in InFlight : m.src = NoiseAddr /\ PeerRecvIntro(i, m)]_vars

\* the moves of a peer's state machine; an uncaught exception ends the process
\* from wherever it is
Order ==
    {<<"init", "await">>, <<"await", "punch">>, <<"punch", "punch">>,
     <<"punch", "listen">>, <<"listen", "listen">>, <<"listen", "done">>}
    \cup {<<s, "crashed">> : s \in {"await", "punch", "listen"}}

\* C17.  A peer's state only moves init (bind, register), await, punch,
\* listen, done, never skipping or going back; its first datagram is its
\* Register, it sends no ping and no ack before it has received an
\* Introduction, no ack before its 3 pings are out, and in Done it neither
\* sends nor receives.
C17_StateOrder ==
    [][\A i \in Peers :
        /\ pc'[i] # pc[i] => <<pc[i], pc'[i]>> \in Order
        /\ psent'[i] # psent[i] =>
               /\ <<pc[i], pc'[i]>> \in Order
               /\ psent'[i][1] =
                      [src |-> PeerAddr(i), dst |-> ServerAddr, data |-> peer_id[i]]
               /\ \A k \in 2..Len(psent'[i]) :
                      psent'[i][k].data[1] \in {"ping", "ack"}
        /\ Len(psent'[i]) > 1 =>
               \E l \in BagToSet(out'[i]) : l.k = "learned"
        /\ Len(AcksSent(i)') > 0 =>
               \A k \in 2..4 : psent'[i][k].data[1] = "ping"
        /\ pc[i] = "done" =>
               /\ pc'[i] = "done"
               /\ psent'[i] = psent[i]
               /\ out'[i] = out[i]]_vars

\* a peer is done having sent its Register, its 3 pings and then an ack
C17_Witness ==
    \E i \in Peers :
        /\ pc[i] = "done"
        /\ Len(psent[i]) >= 5
        /\ psent[i][1].dst = ServerAddr
        /\ psent[i][4].data = Ping(peer_id[i])
        /\ psent[i][5].data = Ack(peer_id[i])

\* pairing is complete, the server received the peer's Register, and the
\* latest Register under the same id came from another address
Superseded(i) ==
    /\ Len(peers) = 2
    /\ \E k \in 1..Len(GotLines) :
        /\ GotLines[k].b = PeerAddr(i)
        /\ LastAddr(GotLines[k].a) # PeerAddr(i)

\* C18.  When two peers have registered under one id before a second id
\* arrived, the registry keeps only the later one's address: once pairing is
\* complete the earlier peer's address is not in the registry, no Introduction
\* is sent to it or names it, and it stays blocked in AwaitingIntroduction
\* (unless a stranger's datagram reaches it), while the server goes on to
\* introduce the other two and exit.
C18_EarlierPeerStranded ==
    [][\A i \in Peers : Superseded(i) =>
        /\ PeerAddr(i) \notin RegAddrs
        /\ \A k \in 1..Len(ssent) :
               /\ ssent[k].dst # PeerAddr(i)
               /\ \A id \in RegIds : ssent[k].data # id \o <<SP, PeerAddr(i)[1], SP, ToString(PeerAddr(i)[2])>>
        /\ pc[i] = "await" =>
               \/ pc'[i] = "await"
               \/ \E m \in InFlight : m.src = NoiseAddr /\ PeerRecvIntro(i, m)
        /\ spc \in {"send_a", "send_b", "done"}
        /\ spc # "done" => ENABLED ServerStep
        /\ spc = "done" =>
               \A a \in RegAddrs : \E k \in 1..Len(ssent) : ssent[k].dst = a]_vars

\* the server has exited, the other two peers have been introduced, and the
\* peer whose registration was overwritten still waits
C18_Witness ==
    \E i \in Peers :
        /\ Superseded(i)
        /\ spc = "done"
        /\ pc[i] = "await"
        /\ \A j \in Peers \ {i} : pc[j] \in {"punch", "listen", "done"}

\* the server has already received this id from this source address
Repeated(m) ==
    \E k \in 1..Len(GotLines) :
        GotLines[k].a = strip(m.data) /\ GotLines[k].b = m.src

\* the registry's ids, in order
KeyOrder(reg) == [k \in 1..Len(reg) |-> reg[k][1]]

\* C19 as stated.  Receiving again a Register the server has already
\* received (same id, same source address) leaves the registry, and with it the
\* pair, its order and the Introductions, as they were.
C19_RepeatChangesNothing ==
    [][\A m \in InFlight :
        (ServerRecv(m) /\ CanDecode(m.data) /\ Repeated(m)) =>
            peers' = peers]_vars

\* C19.  Receiving again a Register already received leaves the registry's
\* ids and their order, the loop and the datagrams sent as they were; it
\* leaves the whole registry as it was unless the id was since registered from
\* another address, and then only that id's address changes, back to the
\* repeated datagram's source.
C19_RepeatIdempotent ==
    [][\A m \in InFlight :
        (ServerRecv(m) /\ CanDecode(m.data) /\ Repeated(m)) =>
            /\ KeyOrder(peers') = KeyOrder(peers)
            /\ spc' = spc
            /\ ssent' = ssent
            /\ LastAddr(strip(m.data)) = m.src => peers' = peers
            /\ \A k \in 1..Len(peers) :
                   peers'[k][2] = IF peers[k][1] = strip(m.data)
                                  THEN m.src ELSE peers[k][2]]_vars

\* a Register was received twice and the pair has been introduced
C19_Witness ==
    /\ spc = "done"
    /\ \E j, k \in 1..Len(GotLines) : j < k /\ GotLines[j] = GotLines[k]
    /\ Len(ssent) = 2

====
